---- MODULE Spec2Model ----
(***************************************************************************)
(* A model of fragrant's HTTP pass-through mirror                          *)
(* (src/src/fragrant/contrib/httpcache.py).                                *)
(*                                                                         *)
(* Text is modelled character by character: a string is a sequence of      *)
(* one-character strings, so that the path and header conversions of the   *)
(* program (unquote, normpath, splitext, the Range regular expressions,    *)
(* '%d' formatting) are computed the way the Python library computes them. *)
(***************************************************************************)
EXTENDS Integers, Sequences, FiniteSets, TLC

(***************************************************************************)
(* Characters and the str methods the program uses                         *)
(***************************************************************************)

\* The printable ASCII characters, code 32 first.
Ascii ==
    <<" ", "!", "\"", "#", "$", "%", "&", "'", "(", ")", "*", "+", ",", "-", ".", "/",
      "0", "1", "2", "3", "4", "5", "6", "7", "8", "9", ":", ";", "<", "=", ">", "?",
      "@", "A", "B", "C", "D", "E", "F", "G", "H", "I", "J", "K", "L", "M", "N", "O",
      "P", "Q", "R", "S", "T", "U", "V", "W", "X", "Y", "Z", "[", "\\", "]", "^", "_",
      "\\x60", "a", "b", "c", "d", "e", "f", "g", "h", "i", "j", "k", "l", "m", "n", "o",
      "p", "q", "r", "s", "t", "u", "v", "w", "x", "y", "z", "{", "|", "}", "~">>

HexLower == <<"0", "1", "2", "3", "4", "5", "6", "7", "8", "9", "a", "b", "c", "d", "e", "f">>
HexUpper == <<"0", "1", "2", "3", "4", "5", "6", "7", "8", "9", "A", "B", "C", "D", "E", "F">>

Digits == {"0", "1", "2", "3", "4", "5", "6", "7", "8", "9"}

\* chr(n): a byte outside printable ASCII is kept as one opaque character.
chr(n) ==
    IF n \in 32..126 THEN Ascii[n - 31]
    ELSE "\\x" \o HexLower[(n \div 16) + 1] \o HexLower[(n % 16) + 1]

ord(c) == CHOOSE n \in 0..255 : chr(n) = c

IsHexDigit(c) == \E i \in 1..16 : HexLower[i] = c \/ HexUpper[i] = c

HexVal(c) == (CHOOSE i \in 1..16 : HexLower[i] = c \/ HexUpper[i] = c) - 1

\* s[i:] and s[:i] with Python's 0-based offsets.
From(s, i) == SubSeq(s, i + 1, Len(s))
UpTo(s, i) == SubSeq(s, 1, i)

\* s.find(c) and s.rfind(c), 0-based, -1 when absent.
find(s, c) ==
    IF \E i \in 1..Len(s) : s[i] = c
    THEN (CHOOSE i \in 1..Len(s) : s[i] = c /\ \A j \in 1..(i - 1) : s[j] # c) - 1
    ELSE -1

rfind(s, c) ==
    IF \E i \in 1..Len(s) : s[i] = c
    THEN (CHOOSE i \in 1..Len(s) : s[i] = c /\ \A j \in (i + 1)..Len(s) : s[j] # c) - 1
    ELSE -1

startswith(s, prefix) ==
    Len(s) >= Len(prefix) /\ SubSeq(s, 1, Len(prefix)) = prefix

\* s.split(c, maxsplit): maxsplit = -1 splits at every c.
RECURSIVE split(_, _, _)
split(s, c, maxsplit) ==
    LET i == find(s, c)
    IN  IF i = -1 \/ maxsplit = 0 THEN <<s>>
        ELSE <<UpTo(s, i)>> \o split(From(s, i + 1), c, maxsplit - 1)

\* sep.join(parts)
RECURSIVE joinwith(_, _)
joinwith(parts, sep) ==
    IF parts = <<>> THEN <<>>
    ELSE IF Len(parts) = 1 THEN parts[1]
    ELSE parts[1] \o sep \o joinwith(Tail(parts), sep)

\* filter(None, words): the non-empty words, in order.
RECURSIVE filter_nonempty(_)
filter_nonempty(words) ==
    IF words = <<>> THEN <<>>
    ELSE IF Head(words) = <<>> THEN filter_nonempty(Tail(words))
    ELSE <<Head(words)>> \o filter_nonempty(Tail(words))

\* '%d' % n and str(n)
RECURSIVE NatToStr(_)
NatToStr(n) ==
    IF n < 10 THEN <<HexLower[n + 1]>>
    ELSE NatToStr(n \div 10) \o <<HexLower[(n % 10) + 1]>>

IntToStr(n) == IF n < 0 THEN <<"-">> \o NatToStr(0 - n) ELSE NatToStr(n)

\* int(s) for a non-empty string of decimal digits
RECURSIVE StrToNat(_)
StrToNat(s) ==
    IF s = <<>> THEN 0
    ELSE 10 * StrToNat(UpTo(s, Len(s) - 1)) + HexVal(s[Len(s)])

AllDigits(s) == \A i \in 1..Len(s) : s[i] \in Digits

\* The text of a string, for the file system's names.
RECURSIVE Text(_)
Text(s) == IF s = <<>> THEN "" ELSE Head(s) \o Text(Tail(s))

(***************************************************************************)
(* urllib and posixpath                                                    *)
(***************************************************************************)

\* urllib.unquote: %XX with two hex digits is decoded, any other % is kept.
RECURSIVE unquote(_)
unquote(s) ==
    IF s = <<>> THEN <<>>
    ELSE IF s[1] = "%" /\ Len(s) >= 3 /\ IsHexDigit(s[2]) /\ IsHexDigit(s[3])
         THEN <<chr(16 * HexVal(s[2]) + HexVal(s[3]))>> \o unquote(From(s, 3))
         ELSE <<s[1]>> \o unquote(Tail(s))

\* urllib.quote(s), safe = '/': letters, digits and _ . - / are kept.
AlwaysSafe ==
    Digits \cup {Ascii[i] : i \in 34..59} \cup {Ascii[i] : i \in 66..91} \cup {"_", ".", "-"}

RECURSIVE quote(_)
quote(s) ==
    IF s = <<>> THEN <<>>
    ELSE (IF s[1] \in AlwaysSafe \cup {"/"} THEN <<s[1]>>
          ELSE <<"%", HexUpper[(ord(s[1]) \div 16) + 1], HexUpper[(ord(s[1]) % 16) + 1]>>)
         \o quote(Tail(s))

\* The component loop of posixpath.normpath.
RECURSIVE normpath_comps(_, _, _)
normpath_comps(comps, new_comps, initial_slashes) ==
    IF comps = <<>> THEN new_comps
    ELSE LET comp == Head(comps)
             n == Len(new_comps)
         IN  IF comp = <<>> \/ comp = <<".">>
             THEN normpath_comps(Tail(comps), new_comps, initial_slashes)
             ELSE IF \/ comp # <<".", ".">>
                     \/ (initial_slashes = 0 /\ n = 0)
                     \/ (n > 0 /\ new_comps[n] = <<".", ".">>)
             THEN normpath_comps(Tail(comps), Append(new_comps, comp), initial_slashes)
             ELSE IF n > 0
             THEN normpath_comps(Tail(comps), UpTo(new_comps, n - 1), initial_slashes)
             ELSE normpath_comps(Tail(comps), new_comps, initial_slashes)

normpath(path) ==
    IF path = <<>> THEN <<".">>
    ELSE LET initial_slashes ==
                 IF ~startswith(path, <<"/">>) THEN 0
                 ELSE IF startswith(path, <<"/", "/">>) /\ ~startswith(path, <<"/", "/", "/">>)
                      THEN 2 ELSE 1
             comps == normpath_comps(split(path, "/", -1), <<>>, initial_slashes)
             joined == [i \in 1..initial_slashes |-> "/"] \o joinwith(comps, <<"/">>)
         IN  IF joined = <<>> THEN <<".">> ELSE joined

\* posixpath.join(a, b)
join(a, b) ==
    IF startswith(b, <<"/">>) THEN b
    ELSE IF a = <<>> \/ a[Len(a)] = "/" THEN a \o b
    ELSE a \o <<"/">> \o b

\* posixpath.split(p)[1]: what follows the last slash.
basename(p) == From(p, rfind(p, "/") + 1)

\* posixpath.dirname(p)
RECURSIVE rstrip_slash(_)
rstrip_slash(s) ==
    IF s # <<>> /\ s[Len(s)] = "/" THEN rstrip_slash(UpTo(s, Len(s) - 1)) ELSE s

dirname(p) ==
    LET head == UpTo(p, rfind(p, "/") + 1)
    IN  IF head # <<>> /\ \E i \in 1..Len(head) : head[i] # "/"
        THEN rstrip_slash(head) ELSE head

\* posixpath.splitext(p): <<root, ext>>; leading dots of the name are no extension.
splitext(p) ==
    LET sepIndex == rfind(p, "/")
        dotIndex == rfind(p, ".")
    IN  IF /\ dotIndex > sepIndex
           /\ \E k \in (sepIndex + 1)..(dotIndex - 1) : p[k + 1] # "."
        THEN <<UpTo(p, dotIndex), From(p, dotIndex)>>
        ELSE <<p, <<>>>>

(***************************************************************************)
(* HttpCache.translate_path                                                *)
(***************************************************************************)

\* The cache directory the server was started with.
cache_dir == <<"/", "c">>

\* The configured mirrors: name -> base URL.
mirrors == [m \in {<<"m">>} |-> <<"h", ":", "/", "/", "u">>]

\* The loop body without its test for curdir and pardir: every word is joined.
translate_word_unchecked(current_path, w) == join(current_path, basename(w))

\* One turn of the loop over the words: . and .. are skipped.
translate_word(current_path, w) ==
    LET word == basename(w)
    IN  IF word = <<".">> \/ word = <<".", ".">> THEN current_path
        ELSE join(current_path, word)

RECURSIVE translate_words(_, _)
translate_words(current_path, words) ==
    IF words = <<>> THEN current_path
    ELSE translate_words(translate_word(current_path, Head(words)), Tail(words))

translate_path(mirror_name, path) ==
    LET noquery == split(path, "?", 1)[1]
        nofrag == split(noquery, "#", 1)[1]
        normal == normpath(unquote(nofrag))
        words == filter_nonempty(split(normal, "/", -1))
    IN  translate_words(join(cache_dir, mirror_name), words)

(***************************************************************************)
(* The file system's view of a path (no symbolic links): the names from    *)
(* the root, with empty and . names dropped and .. stepping up.            *)
(***************************************************************************)

RECURSIVE canon_comps(_, _)
canon_comps(comps, acc) ==
    IF comps = <<>> THEN acc
    ELSE LET comp == Head(comps)
         IN  IF comp = <<>> \/ comp = <<".">> THEN canon_comps(Tail(comps), acc)
             ELSE IF comp = <<".", ".">>
             THEN canon_comps(Tail(comps), IF acc = <<>> THEN acc ELSE UpTo(acc, Len(acc) - 1))
             ELSE canon_comps(Tail(comps), Append(acc, Text(comp)))

canon(path) == canon_comps(split(path, "/", -1), <<>>)

Range(f) == {f[i] : i \in DOMAIN f}

IsPrefix(a, b) == Len(a) <= Len(b) /\ SubSeq(b, 1, Len(a)) = a

(***************************************************************************)
(* File and body contents.  A content is a sequence of runs; a run is len   *)
(* consecutive bytes of the upstream object src starting at its offset off, *)
(* or len zero bytes (src = "zero", a hole left by a write past the end).   *)
(* Contents are kept merged, so equal byte strings are equal values.        *)
(***************************************************************************)

Min(a, b) == IF a < b THEN a ELSE b
Max(a, b) == IF a > b THEN a ELSE b

Run(src, off, len) == [src |-> src, off |-> IF src = "zero" THEN 0 ELSE off, len |-> len]

RECURSIVE BLen(_)
BLen(b) == IF b = <<>> THEN 0 ELSE Head(b).len + BLen(Tail(b))

Adjoins(r1, r2) ==
    r1.src = r2.src /\ (r1.src = "zero" \/ r1.off + r1.len = r2.off)

RECURSIVE BNorm(_)
BNorm(b) ==
    IF b = <<>> THEN <<>>
    ELSE IF Head(b).len = 0 THEN BNorm(Tail(b))
    ELSE LET rest == BNorm(Tail(b))
         IN  IF rest # <<>> /\ Adjoins(Head(b), Head(rest))
             THEN <<Run(Head(b).src, Head(b).off, Head(b).len + Head(rest).len)>> \o Tail(rest)
             ELSE <<Head(b)>> \o rest

BCat(a, b) == BNorm(a \o b)

\* The bytes at offsets lo .. hi - 1 (those that exist).
RECURSIVE BSlice(_, _, _)
BSlice(b, lo, hi) ==
    IF b = <<>> \/ hi <= 0 THEN <<>>
    ELSE LET r == Head(b)
             a == Max(lo, 0)
             z == Min(hi, r.len)
             piece == IF a < z THEN <<Run(r.src, r.off + a, z - a)>> ELSE <<>>
         IN  piece \o BSlice(Tail(b), lo - r.len, hi - r.len)

\* write(2) of data at offset pos: a write past the end leaves a hole.
BWriteAt(b, pos, data) ==
    IF data = <<>> THEN b
    ELSE LET before == IF pos <= BLen(b) THEN BSlice(b, 0, pos)
                       ELSE b \o <<Run("zero", 0, pos - BLen(b))>>
             after == BSlice(b, pos + BLen(data), BLen(b))
         IN  BNorm(before \o data \o after)

(***************************************************************************)
(* Response                                                                *)
(***************************************************************************)

\* None (and the empty header) is the empty tuple; a range is <<start, end>>.
None == <<>>

FULL_RANGE == <<0, -1>>

\* Response.__init__: range or FULL_RANGE
Response(content_type, size, range) ==
    [range |-> IF range = None THEN FULL_RANGE ELSE range,
     content_type |-> content_type,
     size |-> size]

status(r) == IF r.range # FULL_RANGE THEN 206 ELSE 200

content_start(r) == r.range[1]

content_end(r) == IF r.range[2] = -1 THEN r.size - 1 ELSE r.range[2]

content_length(r) == (content_start(r) - content_end(r)) + 1

bytes_sp == <<"b", "y", "t", "e", "s", " ">>
bytes_eq == <<"b", "y", "t", "e", "s", "=">>

\* 'bytes %d-%d/%d' % (start, end, size)
format_content_range(start, end, size) ==
    bytes_sp \o IntToStr(start) \o <<"-">> \o IntToStr(end) \o <<"/">> \o IntToStr(size)

\* Response.headers without its test of the status: Content-Range always.
headers_always_range(r) ==
    << <<"Content-Length", IntToStr(content_length(r))>>,
       <<"Content-Range", format_content_range(content_start(r), content_end(r), r.size)>> >>

\* Response.headers: a list of (name, value); the values are kept as
\* characters.
headers(r) ==
    <<  <<"Content-Length", IntToStr(content_length(r))>>  >>
    \o (IF status(r) = 206
        THEN << <<"Content-Range",
                  format_content_range(content_start(r), content_end(r), r.size)>> >>
        ELSE <<>>)

\* BaseHTTPRequestHandler.responses[code][0] for the codes Response produces
reason_phrase(code) == IF code = 206 THEN "Partial Content" ELSE "OK"

(***************************************************************************)
(* The Range and Content-Range regular expressions                         *)
(***************************************************************************)

\* ^bytes=(?P<start>\d+)-(?P<end>\d+)?$ : <<start, end>> as strings, or None.
match_range(s) ==
    IF ~startswith(s, bytes_eq) THEN None
    ELSE LET rest == From(s, Len(bytes_eq))
             dash == find(rest, "-")
             start == UpTo(rest, dash)
             end == From(rest, dash + 1)
         IN  IF dash >= 1 /\ AllDigits(start) /\ AllDigits(end)
             THEN <<start, end>> ELSE None

\* ^bytes (?P<start>\d+)-(?P<end>\d+)/(?P<size>\d+)$ : <<start, end, size>> or None.
match_content_range(s) ==
    IF ~startswith(s, bytes_sp) THEN None
    ELSE LET rest == From(s, Len(bytes_sp))
             dash == find(rest, "-")
             slash == find(rest, "/")
             start == UpTo(rest, dash)
             end == SubSeq(rest, dash + 2, slash)
             size == From(rest, slash + 1)
         IN  IF /\ dash >= 1 /\ slash > dash + 1 /\ size # <<>>
                /\ AllDigits(start) /\ AllDigits(end) /\ AllDigits(size)
             THEN <<start, end, size>> ELSE None

(***************************************************************************)
(* HttpCache: the pure steps of do_GET                                     *)
(***************************************************************************)

\* FileContent.readsize, FileCacheContent.readsize
readsize == 4096

rpm_ext == <<".", "r", "p", "m">>

\* extensions_map.get(ext, extensions_map[None])
content_type_of(ext) ==
    IF ext = rpm_ext THEN "application/x-redhat-package-manager"
    ELSE "application/octet-stream"

\* reconstruct_url with SCRIPT_NAME = '': the quoted PATH_INFO.
reconstruct_url(path_info) == quote(path_info)

\* _get_range: [raised, range].  A header the pattern does not match makes
\* m None, and m.group raises AttributeError.
get_range(http_range) ==
    IF http_range = None THEN [raised |-> FALSE, range |-> None]
    ELSE LET m == match_range(http_range)
         IN  IF m = None THEN [raised |-> TRUE, range |-> None]
             ELSE [raised |-> FALSE,
                   range |-> <<StrToNat(m[1]), IF m[2] # <<>> THEN StrToNat(m[2]) ELSE -1>>]

\* '%s(%d-%d)%s' % (name, range[0], range[1], ext)
range_path_of(path, range) ==
    IF range = None THEN path
    ELSE LET ne == splitext(path)
         IN  ne[1] \o <<"(">> \o IntToStr(range[1]) \o <<"-">> \o IntToStr(range[2])
                   \o <<")">> \o ne[2]

\* The Range header of the fetch with its end always left out.
range_request_header_open(range) ==
    IF range = None THEN None
    ELSE bytes_eq \o IntToStr(range[1]) \o <<"-">>

\* 'bytes=%d-%s' % (range[0], range[1] if range[1] != -1 else '')
range_request_header(range) ==
    IF range = None THEN None
    ELSE bytes_eq \o IntToStr(range[1]) \o <<"-">>
                  \o (IF range[2] # -1 THEN IntToStr(range[2]) ELSE <<>>)

tmp_suffix == <<".", "t", "m", "p">>

(***************************************************************************)
(* The upstream servers.  One object exists, BodySize bytes long; a server *)
(* may honour a Range header (206 with Content-Range) or ignore it (200).  *)
(***************************************************************************)

BodySize == 5000

UpstreamObjects == { mirrors[<<"m">>] \o <<"/", "a">> \o rpm_ext }

UpstreamBody(url) == <<Run(Text(url), 0, BodySize)>>

upstream_reply(url, range_header, honours) ==
    LET m == IF range_header = None THEN None ELSE match_range(range_header)
        start == IF m = None THEN 0 ELSE StrToNat(m[1])
        last == IF m = None \/ m[2] = <<>> THEN BodySize - 1
                ELSE Min(StrToNat(m[2]), BodySize - 1)
    IN  IF url \notin UpstreamObjects
        THEN [code |-> 404, msg |-> "Not Found", content_range |-> None,
              content_length |-> None, body |-> <<>>]
        ELSE IF m # None /\ honours /\ start >= BodySize
        THEN [code |-> 416, msg |-> "Requested Range Not Satisfiable",
              content_range |-> None, content_length |-> None, body |-> <<>>]
        ELSE IF m # None /\ honours /\ start <= last
        THEN [code |-> 206, msg |-> "Partial Content",
              content_range |-> format_content_range(start, last, BodySize),
              content_length |-> IntToStr(last - start + 1),
              body |-> BSlice(UpstreamBody(url), start, last + 1)]
        ELSE [code |-> 200, msg |-> "OK", content_range |-> None,
              content_length |-> IntToStr(BodySize), body |-> UpstreamBody(url)]

(***************************************************************************)
(* The requests clients send                                               *)
(***************************************************************************)

GET == <<"G", "E", "T">>
POST == <<"P", "O", "S", "T">>

a_rpm == <<"/", "m", "/", "a">> \o rpm_ext

PathInfos ==
    { a_rpm,
      a_rpm \o tmp_suffix,
      <<"/", ".", "/", "m", "/", "a">> \o rpm_ext,
      <<"/", "x", "/", "a">> \o rpm_ext }

RangeHeaders ==
    { None,
      bytes_eq \o <<"0", "-">>,
      bytes_eq \o <<"1", "0", "0", "-">>,
      bytes_eq \o <<"1", "0", "0", "-", "1", "9", "9">>,
      bytes_eq \o <<"1", "9", "9", "-", "1", "0", "0">>,
      bytes_eq \o <<"x">> }

\* Paths asked for without a Range header only: a file of the host outside
\* the cache directory, by way of the mirror segment '..'; the directory of
\* the mirror m; a resource whose name is the name of a range file of a.rpm.
outside_path == <<"/", ".", ".", "/", "s">>
mirror_root == <<"/", "m", "/">>
a_100_199_rpm == <<"/", "m", "/", "a", "(", "1", "0", "0", "-", "1", "9", "9", ")">> \o rpm_ext

\* A request: <<REQUEST_METHOD, PATH_INFO, HTTP_RANGE>>.
RequestChars ==
    { <<GET, p, h>> : p \in PathInfos, h \in RangeHeaders }
    \cup { <<GET, p, None>> : p \in {outside_path, mirror_root, a_100_199_rpm} }
    \cup { <<POST, a_rpm, None>> }

\* The state holds a request as text; the program works on its characters.
Key(rq) == <<Text(rq[1]), Text(rq[2]), Text(rq[3])>>

Requests == { Key(rq) : rq \in RequestChars }

\* The names of a path, as the file system reads it: split at the slashes.
names_of(path) ==
    LET comps == split(path, "/", -1) IN [i \in 1..Len(comps) |-> Text(comps[i])]

\* A path: its characters, its text and its names.
Path(chars) == [chars |-> chars, text |-> Text(chars), names |-> names_of(chars)]

\* do_GET, the part that depends on the request alone, in the order of the
\* code: the mirror and the path, the range, the range path, the upstream
\* request.  Fields are None where the code does not reach them.
prepare_fetch(unpacked, mirror_name, url, known, path, gr, range_path, range_header) ==
    [unpacked |-> unpacked,
     mirror_name |-> mirror_name,
     url |-> url,
     path |-> Path(path),
     ctype |-> content_type_of(splitext(path)[2]),
     range_raised |-> gr.raised,
     range |-> gr.range,
     range_path |-> Path(range_path),
     tmp_path |-> Path(range_path \o tmp_suffix),
     dir |-> Path(dirname(range_path)),
     known_mirror |-> known,
     fetch_url |-> IF known THEN mirrors[mirror_name] \o url ELSE None,
     fetch_range |-> range_header,
     fetch_text |-> IF known THEN <<Text(mirrors[mirror_name] \o url), Text(range_header)>>
                    ELSE <<"", "">>]

prepare_range(unpacked, mirror_name, url, path, gr) ==
    prepare_fetch(unpacked, mirror_name, url, mirror_name \in DOMAIN mirrors, path, gr,
                  range_path_of(path, gr.range), range_request_header(gr.range))

prepare_path(parts, http_range) ==
    IF Len(parts) = 3
    THEN prepare_range(TRUE, parts[2], <<"/">> \o parts[3],
                       translate_path(parts[2], <<"/">> \o parts[3]), get_range(http_range))
    ELSE prepare_range(FALSE, None, None, None, get_range(http_range))

prepare(rq) == prepare_path(split(reconstruct_url(rq[2]), "/", 2), rq[3])

Prepared == [k \in Requests |-> prepare(CHOOSE rq \in RequestChars : Key(rq) = k)]

\* The replies of the upstream to the requests the program can make.
UpstreamReplies ==
    [q \in { <<Prepared[k].fetch_url, Prepared[k].fetch_range, h>>
             : k \in { j \in Requests : Prepared[j].known_mirror }, h \in BOOLEAN }
       |-> upstream_reply(q[1], q[2], q[3])]

VARIABLES
    req,        \* worker -> the request it is serving or served last
    dirs,       \* the directories of the file system (canonical paths)
    files,      \* the regular files: canonical path -> inode
    inodes,     \* inode -> content
    nreq,       \* requests accepted so far
    tp_mirror,  \* translate_path on its own: the mirror name given
    tp_path,    \* translate_path on its own: the raw URL path given
    tp_result,  \* translate_path on its own: the path returned, <<>> before the call
    fn_args,    \* a function of the program on its own: the arguments given
    fn_result,  \* a function of the program on its own: <<value>>, <<>> before the call
    vbox        \* a Vbox object, its VM and the contexts entered on it

fsvars == <<dirs, files, inodes>>
tpvars == <<tp_mirror, tp_path, tp_result, fn_args, fn_result, vbox>>
vars == <<req, dirs, files, inodes, nreq, tp_mirror, tp_path, tp_result, fn_args, fn_result, vbox>>

(***************************************************************************)
(* The file system calls the program makes                                 *)
(***************************************************************************)

\* What no path resolves to.
NoEntry == <<"">>

\* Path resolution: every name but the last must be a directory.
RECURSIVE walk(_, _, _)
walk(comps, cur, ds) ==
    IF comps = <<>> THEN cur
    ELSE IF cur \notin ds THEN NoEntry
    ELSE LET comp == Head(comps)
         IN  IF comp = "" \/ comp = "." THEN walk(Tail(comps), cur, ds)
             ELSE IF comp = ".."
             THEN walk(Tail(comps), IF cur = <<>> THEN cur ELSE UpTo(cur, Len(cur) - 1), ds)
             ELSE walk(Tail(comps), Append(cur, comp), ds)

resolve_in(path, ds) == walk(path.names, <<>>, ds)

resolve(path) == resolve_in(path, dirs)

isfile(path) == resolve(path) \in DOMAIN files
isdir(path) == resolve(path) \in dirs
exists(path) == isfile(path) \/ isdir(path)

\* os.makedirs(dir): [ok, dirs]; not ok (OSError) when a name on the way is
\* a regular file.
makedirs(dir) ==
    LET target == canon(dir.chars)
        wanted == { UpTo(target, n) : n \in 0..Len(target) }
    IN  IF wanted \cap DOMAIN files # {} THEN [ok |-> FALSE, dirs |-> dirs]
        ELSE [ok |-> TRUE, dirs |-> dirs \cup wanted]

\* A fresh inode number.
fresh_inode(used) == CHOOSE n \in 1..(Cardinality(used) + 1) : n \notin used

\* Inodes that no name and no open file refers to are reclaimed.
reclaim(fs, ino, rq) ==
    LET live == Range(fs) \cup { rq[w].outfile.ino : w \in { v \in DOMAIN rq : rq[v].pc = "miss" } }
                          \cup { rq[w].infile.ino : w \in { v \in DOMAIN rq : rq[v].pc = "hit" } }
    IN  [n \in DOMAIN ino \cap live |-> ino[n]]

\* open(path, 'r+b', readsize) where the file exists: its bytes are kept.
open_wb_untruncated(path, ds) ==
    LET t == resolve_in(path, ds)
    IN  IF t = NoEntry \/ t = <<>> \/ t \in ds \/ UpTo(t, Len(t) - 1) \notin ds
        THEN [ok |-> FALSE, files |-> files, inodes |-> inodes, ino |-> 0]
        ELSE IF t \in DOMAIN files
        THEN [ok |-> TRUE, files |-> files, inodes |-> inodes, ino |-> files[t]]
        ELSE LET n == fresh_inode(DOMAIN inodes)
             IN  [ok |-> TRUE,
                  files |-> [q \in DOMAIN files \cup {t} |-> IF q = t THEN n ELSE files[q]],
                  inodes |-> [k \in DOMAIN inodes \cup {n} |-> IF k = n THEN <<>> ELSE inodes[k]],
                  ino |-> n]

\* open(path, 'wb', readsize) with the directories ds: [ok, files, inodes, ino].
\* An existing file is truncated, a missing one created.
open_wb(path, ds) ==
    LET t == resolve_in(path, ds)
    IN  IF t = NoEntry \/ t = <<>> \/ t \in ds \/ UpTo(t, Len(t) - 1) \notin ds
        THEN [ok |-> FALSE, files |-> files, inodes |-> inodes, ino |-> 0]
        ELSE IF t \in DOMAIN files
        THEN [ok |-> TRUE, files |-> files,
              inodes |-> [inodes EXCEPT ![files[t]] = <<>>], ino |-> files[t]]
        ELSE LET n == fresh_inode(DOMAIN inodes)
             IN  [ok |-> TRUE,
                  files |-> [q \in DOMAIN files \cup {t} |-> IF q = t THEN n ELSE files[q]],
                  inodes |-> [k \in DOMAIN inodes \cup {n} |-> IF k = n THEN <<>> ELSE inodes[k]],
                  ino |-> n]

\* os.rename(src, dst): [ok, files]; not ok is OSError.
rename(src, dst) ==
    LET s == resolve(src)
        d == resolve(dst)
    IN  IF s \notin DOMAIN files \/ d = NoEntry \/ d \in dirs
        THEN [ok |-> FALSE, files |-> files]
        ELSE [ok |-> TRUE,
              files |-> [q \in (DOMAIN files \ {s}) \cup {d} |->
                            IF q = d THEN files[s] ELSE files[q]]]

\* The inodes after the open output file's pending bytes are written out.
flushed(ino, f) ==
    IF f.buf = <<>> THEN ino
    ELSE [ino EXCEPT ![f.ino] = BWriteAt(@, f.pos, f.buf)]

\* f.read(n): the bytes of the open file from its position; all of them
\* when n is negative.
file_read(f, n) ==
    LET content == inodes[f.ino]
    IN  IF n < 0 THEN BSlice(content, f.pos, BLen(content))
        ELSE BSlice(content, f.pos, f.pos + n)

(***************************************************************************)
(* Requests                                                                *)
(***************************************************************************)

Workers == {1, 2}

MaxRequests == 2

NoFile == [ino |-> 0, pos |-> 0, buf |-> <<>>, closed |-> 0]

NoRemote == [body |-> <<>>, pos |-> 0, length |-> 0, closed |-> 0]

\* A worker with no request yet.  Texts are "" where the code has not set them.
Idle ==
    [pc |-> "idle", method |-> "", path_info |-> "", http_range |-> "",
     outcome |-> "none", error |-> "", started |-> 0, status |-> None,
     headers |-> <<>>, size |-> -1, kind |-> "none", path |-> "", range_path |-> "",
     local_path |-> "", range |-> None, file_range |-> None,
     fetches |-> 0, fetch_url |-> "", fetch_range |-> "", upstream_code |-> 0,
     upstream_range |-> None,
     remote |-> NoRemote, infile |-> NoFile, outfile |-> NoFile, outfilename |-> "",
     remaining |-> 0, delivered |-> <<>>, chunks |-> <<>>]

KeyOf(r) == <<r.method, r.path_info, r.http_range>>

\* The request has left the program: by an exception or with its stream ended.
Ended(r, how, err) == [r EXCEPT !.pc = "idle", !.outcome = how, !.error = err]

\* start_response(status, headers)
start_response(r, code, reason, hdrs) ==
    [r EXCEPT !.started = @ + 1, !.status = <<code, reason>>, !.headers = hdrs]

\* _start_response that computes the response and does not emit it.
respond_unstarted(r, response) == [r EXCEPT !.size = response.size]

\* _start_response(start_response, response)
respond(r, response) ==
    start_response([r EXCEPT !.size = response.size],
                   status(response), reason_phrase(status(response)), headers(response))

\* _find_file with the order of its paths reversed: the last that is a file.
find_file_last(paths) ==
    IF isfile(paths[2][1]) THEN paths[2]
    ELSE IF isfile(paths[1][1]) THEN paths[1]
    ELSE <<Path(None), FALSE>>

\* _find_file(paths): the first of the paths that is a regular file; the
\* path of (None, None) is the empty path.
find_file(paths) ==
    IF isfile(paths[1][1]) THEN paths[1]
    ELSE IF isfile(paths[2][1]) THEN paths[2]
    ELSE <<Path(None), FALSE>>

\* do_GET up to the point where it waits for the upstream (a miss) or
\* returns (anything else).  readable: whether open(local_path) succeeds;
\* p: what the request alone determines.
\* The except clause with the request going on as if nothing had been found.
could_not_read_goes_upstream(r) ==
    [r EXCEPT !.pc = "urlopen", !.outcome = "fetching", !.fetches = @ + 1]

\* except IOError: start_response('500 Could not read file', []); return ''
could_not_read(r) ==
    Ended(start_response(r, 500, "Could not read file", <<>>), "empty", "")

do_GET(r0, readable, p) ==
    LET r1 == [r0 EXCEPT !.path = p.path.text]
        found == find_file(<< <<p.path, TRUE>>, <<p.range_path, FALSE>> >>)
        local_path == found[1]
        file_range == found[2]
        r2 == [r1 EXCEPT !.range_path = p.range_path.text, !.range = p.range]
    IN  IF ~p.unpacked THEN Ended(r0, "raised", "ValueError")
        ELSE IF isdir(p.path) THEN Ended(r1, "returned None", "")
        ELSE IF p.range_raised THEN Ended(r1, "raised", "AttributeError")
        ELSE IF local_path.chars # None
        THEN IF ~readable
             THEN could_not_read([r2 EXCEPT !.kind = "hit", !.local_path = local_path.text])
             ELSE
             LET ino == files[resolve(local_path)]
                 filesize == BLen(inodes[ino])
                 response == Response(p.ctype, filesize, p.range)
                 r3 == [r2 EXCEPT !.kind = "hit", !.local_path = local_path.text,
                                  !.infile = [NoFile EXCEPT !.ino = ino, !.pos = -1],
                                  !.file_range =
                                      IF file_range
                                      THEN <<content_start(response), content_end(response)>>
                                      ELSE None,
                                  !.pc = "hit", !.outcome = "streaming"]
             IN  respond(r3, response)
        ELSE IF ~p.known_mirror
        THEN Ended(r2, "raised", "KeyError")
        ELSE [r2 EXCEPT !.kind = "miss", !.pc = "urlopen", !.outcome = "fetching",
                        !.fetches = @ + 1,
                        !.fetch_url = p.fetch_text[1],
                        !.fetch_range = p.fetch_text[2]]

\* __call__ without the test of the method.
call_any_method(r0, readable) == do_GET(r0, readable, Prepared[KeyOf(r0)])

\* __call__
call(r0, readable) ==
    IF r0.method = "GET" THEN do_GET(r0, readable, Prepared[KeyOf(r0)])
    ELSE Ended(r0, "raised", "Exception")

(***************************************************************************)
(* The actions.  The server runs its requests as green threads: a request  *)
(* runs until it waits for the network (urlopen, the upstream read, the    *)
(* write of a yielded chunk to the client), so each action below is the    *)
(* code between two such waits.                                            *)
(***************************************************************************)

\* The host has one file outside the cache directory, /s.
outside_file == <<"s">>
outside_content == <<Run("/s", 0, readsize)>>

FsInit ==
    /\ req = [w \in Workers |-> Idle]
    /\ dirs = { <<>>, canon(cache_dir) }
    /\ files = [t \in {outside_file} |-> 1]
    /\ inodes = <<outside_content>>
    /\ nreq = 0

Init ==
    /\ FsInit
    /\ tp_mirror = <<>>
    /\ tp_path = <<>>
    /\ tp_result = <<>>
    /\ fn_args = <<>>
    /\ fn_result = <<>>
    /\ vbox = <<>>

\* A worker takes a request, with the directory of its cache path made
\* before the mirror is looked up.
accept_makedirs_first(w, rq, readable) ==
    /\ req[w].pc = "idle"
    /\ \A v \in Workers : v < w => req[v] # Idle
    /\ nreq' = nreq + 1
    /\ LET r0 == [Idle EXCEPT !.method = rq[1], !.path_info = rq[2], !.http_range = rq[3]]
           rq1 == [req EXCEPT ![w] = call(r0, readable)]
       IN  /\ req' = rq1
           /\ inodes' = reclaim(files, inodes, rq1)
           /\ dirs' = IF rq1[w].error = "KeyError" THEN makedirs(Prepared[rq].dir).dirs
                      ELSE dirs
    /\ UNCHANGED <<files, tpvars>>

\* A worker takes a request: __call__, and do_GET up to its first wait.
\* (The workers are alike: a fresh worker is taken in order.)
accept(w, rq, readable) ==
    /\ req[w].pc = "idle"
    /\ \A v \in Workers : v < w => req[v] # Idle
    /\ nreq' = nreq + 1
    /\ LET r0 == [Idle EXCEPT !.method = rq[1], !.path_info = rq[2], !.http_range = rq[3]]
           rq1 == [req EXCEPT ![w] = call(r0, readable)]
       IN  /\ req' = rq1
           /\ inodes' = reclaim(files, inodes, rq1)
    /\ UNCHANGED <<dirs, files, tpvars>>

Call(w, rq, readable) == nreq < MaxRequests /\ accept(w, rq, readable)

\* do_GET after urlopen has returned, without its reading of Content-Range:
\* the client's range, the size from Content-Length.
cache_reply_client_range(w, p, reply, made, opened) ==
    LET m == None
        filesize == IF m # None THEN StrToNat(m[3])
                    ELSE IF reply.content_length # None
                         THEN StrToNat(reply.content_length) ELSE 0
        range == IF m # None THEN <<StrToNat(m[1]), StrToNat(m[2])>> ELSE req[w].range
        r1 == [req[w] EXCEPT !.upstream_code = reply.code,
                             !.upstream_range = reply.content_range,
                             !.range = range,
                             !.remote = [NoRemote EXCEPT !.body = reply.body,
                                                         !.length = BLen(reply.body)],
                             !.outfilename = p.range_path.text,
                             !.outfile = [NoFile EXCEPT !.ino = opened.ino],
                             !.pc = "miss", !.outcome = "streaming"]
    IN  IF ~opened.ok
        THEN /\ req' = [req EXCEPT ![w] =
                           Ended([req[w] EXCEPT !.upstream_code = reply.code],
                                 "raised", "IOError")]
             /\ dirs' = made.dirs
             /\ UNCHANGED <<files, inodes>>
        ELSE /\ req' = [req EXCEPT ![w] = respond(r1, Response(p.ctype, filesize, range))]
             /\ dirs' = made.dirs
             /\ files' = opened.files
             /\ inodes' = opened.inodes

\* do_GET after urlopen has returned reply: the response's size and range,
\* FileCacheContent.__init__ (made, opened: what makedirs and open did),
\* _start_response.
cache_reply(w, p, reply, made, opened) ==
    LET m == IF reply.content_range # None
             THEN match_content_range(reply.content_range) ELSE None
        filesize == IF m # None THEN StrToNat(m[3])
                    ELSE IF reply.content_length # None
                         THEN StrToNat(reply.content_length) ELSE 0
        range == IF m # None THEN <<StrToNat(m[1]), StrToNat(m[2])>> ELSE req[w].range
        r1 == [req[w] EXCEPT !.upstream_code = reply.code,
                             !.upstream_range = reply.content_range,
                             !.range = range,
                             !.remote = [NoRemote EXCEPT !.body = reply.body,
                                                         !.length = BLen(reply.body)],
                             !.outfilename = p.range_path.text,
                             !.outfile = [NoFile EXCEPT !.ino = opened.ino],
                             !.pc = "miss", !.outcome = "streaming"]
    IN  IF ~opened.ok
        THEN /\ req' = [req EXCEPT ![w] =
                           Ended([req[w] EXCEPT !.upstream_code = reply.code],
                                 "raised", "IOError")]
             /\ dirs' = made.dirs
             /\ UNCHANGED <<files, inodes>>
        ELSE /\ req' = [req EXCEPT ![w] = respond(r1, Response(p.ctype, filesize, range))]
             /\ dirs' = made.dirs
             /\ files' = opened.files
             /\ inodes' = opened.inodes

\* do_GET from the return of urlopen, with the directory of the range path
\* made before the reply's status is looked at.
urlopen_done_makedirs_first(w, p, reply, made) ==
    IF ~made.ok
    THEN /\ req' = [req EXCEPT ![w] =
                       Ended([req[w] EXCEPT !.upstream_code = reply.code],
                             "raised", "OSError")]
         /\ UNCHANGED fsvars
    ELSE IF reply.code \notin {200, 206}
    THEN /\ req' = [req EXCEPT ![w] =
                       Ended(start_response([req[w] EXCEPT !.upstream_code = reply.code],
                                 reply.code,
                                 "HTTP Error " \o Text(IntToStr(reply.code)) \o ": " \o reply.msg,
                                 <<>>), "empty", "")]
         /\ dirs' = made.dirs
         /\ UNCHANGED <<files, inodes>>
    ELSE \E opened \in {open_wb(p.tmp_path, made.dirs)} : cache_reply(w, p, reply, made, opened)

\* do_GET from the return of urlopen: HTTPError ends the request with the
\* upstream's status; otherwise the directory of the range path is made.
urlopen_done(w, p, reply, made) ==
    IF reply.code \notin {200, 206}
    THEN /\ req' = [req EXCEPT ![w] =
                       Ended(start_response([req[w] EXCEPT !.upstream_code = reply.code],
                                 reply.code,
                                 "HTTP Error " \o Text(IntToStr(reply.code)) \o ": " \o reply.msg,
                                 <<>>), "empty", "")]
         /\ UNCHANGED fsvars
    ELSE IF ~made.ok
    THEN /\ req' = [req EXCEPT ![w] =
                       Ended([req[w] EXCEPT !.upstream_code = reply.code],
                             "raised", "OSError")]
         /\ UNCHANGED fsvars
    ELSE \E opened \in {open_wb(p.tmp_path, made.dirs)} : cache_reply(w, p, reply, made, opened)

\* urlopen returns or raises HTTPError, and the rest of do_GET runs.
\* honours: whether the upstream honours a Range header.
UrlopenDone(w, honours) ==
    /\ req[w].pc = "urlopen"
    /\ \E p \in {Prepared[KeyOf(req[w])]} :
          \E reply \in {UpstreamReplies[<<p.fetch_url, p.fetch_range, honours>>]},
             made \in {IF exists(p.dir) THEN [ok |-> TRUE, dirs |-> dirs] ELSE makedirs(p.dir)} :
             urlopen_done(w, p, reply, made)
    /\ UNCHANGED <<nreq, tpvars>>

\* One turn of the loop of FileCacheContent.__iter__ that yields the chunk
\* it read and does not write it.
MissChunk_unwritten(w, through) ==
    /\ req[w].pc = "miss"
    /\ req[w].remote.pos < req[w].remote.length
    /\ LET r == req[w]
           bytes == BSlice(r.remote.body, r.remote.pos,
                           Min(r.remote.pos + readsize, r.remote.length))
       IN  req' = [req EXCEPT ![w] =
                      [r EXCEPT !.remote.pos = @ + BLen(bytes),
                                !.delivered = BCat(@, bytes),
                                !.chunks = Append(@, BLen(bytes))]]
    /\ UNCHANGED <<fsvars, nreq, tpvars>>

\* FileCacheContent.__iter__, one turn of the loop: read a chunk from the
\* upstream, write it to the temp file, yield it.  through: whether the
\* write reaches the file now or stays in the file object's buffer.
MissChunk(w, through) ==
    /\ req[w].pc = "miss"
    /\ req[w].remote.pos < req[w].remote.length
    /\ LET r == req[w]
           bytes == BSlice(r.remote.body, r.remote.pos,
                           Min(r.remote.pos + readsize, r.remote.length))
           pending == BCat(r.outfile.buf, bytes)
           now == through \/ BLen(pending) > readsize
           out == IF now THEN [r.outfile EXCEPT !.pos = @ + BLen(pending), !.buf = <<>>]
                  ELSE [r.outfile EXCEPT !.buf = pending]
       IN  /\ inodes' = IF now THEN flushed(inodes, [r.outfile EXCEPT !.buf = pending])
                        ELSE inodes
           /\ req' = [req EXCEPT ![w] =
                         [r EXCEPT !.remote.pos = @ + BLen(bytes),
                                   !.outfile = out,
                                   !.delivered = BCat(@, bytes),
                                   !.chunks = Append(@, BLen(bytes))]]
    /\ UNCHANGED <<dirs, files, nreq, tpvars>>

\* os.rename(self.outfilename + '.tmp', self.outfilename)
rename_tmp(p) == rename(p.tmp_path, p.range_path)

\* FileCacheContent.__iter__ after the loop: the read returned no bytes;
\* close the upstream and the temp file, rename the temp file.
MissFinish(w) ==
    /\ req[w].pc = "miss"
    /\ req[w].remote.pos = req[w].remote.length
    /\ LET r == req[w]
           r1 == [r EXCEPT !.remote.closed = @ + 1,
                           !.outfile = [@ EXCEPT !.pos = @ + BLen(r.outfile.buf),
                                                 !.buf = <<>>, !.closed = @ + 1]]
           renamed == rename_tmp(Prepared[KeyOf(r)])
           rq1 == [req EXCEPT ![w] = IF renamed.ok THEN Ended(r1, "complete", "")
                                     ELSE Ended(r1, "raised", "OSError")]
       IN  /\ req' = rq1
           /\ files' = renamed.files
           /\ inodes' = reclaim(renamed.files, flushed(inodes, r.outfile), rq1)
    /\ UNCHANGED <<dirs, nreq, tpvars>>

\* The upstream closes the connection before the whole body is sent: the
\* next read returns no bytes.
UpstreamCloses(w) ==
    /\ req[w].pc = "miss"
    /\ req[w].remote.pos < req[w].remote.length
    /\ req' = [req EXCEPT ![w].remote.length = req[w].remote.pos]
    /\ UNCHANGED <<fsvars, nreq, tpvars>>

\* The upstream read raises (connection reset): the exception leaves
\* __iter__; the file object is released with the request and its pending
\* bytes are written out.
UpstreamFails(w) ==
    /\ req[w].pc = "miss"
    /\ req[w].remote.pos < req[w].remote.length
    /\ LET rq1 == [req EXCEPT ![w] = Ended(req[w], "raised", "socket.error")]
       IN  /\ req' = rq1
           /\ inodes' = reclaim(files, flushed(inodes, req[w].outfile), rq1)
    /\ UNCHANGED <<dirs, files, nreq, tpvars>>

\* FileContent.__iter__ before its loop: f.seek(range[0]), total, remaining.
sought(r) ==
    IF r.infile.pos # -1 THEN r
    ELSE [r EXCEPT !.infile.pos = r.file_range[1],
                   !.remaining = (r.file_range[2] - r.file_range[1]) + 1]

\* FileContent.__iter__, one turn of the loop that yields.
HitChunk(w) ==
    /\ req[w].pc = "hit"
    /\ req[w].file_range # None
    /\ LET r == sought(req[w])
           output == file_read(r.infile, Min(readsize, r.remaining))
       IN  /\ r.remaining # 0
           /\ output # <<>>
           /\ req' = [req EXCEPT ![w] =
                         [r EXCEPT !.infile.pos = @ + BLen(output),
                                   !.remaining = @ - BLen(output),
                                   !.delivered = BCat(@, output),
                                   !.chunks = Append(@, BLen(output))]]
    /\ UNCHANGED <<fsvars, nreq, tpvars>>

\* FileContent.__iter__ ending: range is None and range[0] raises
\* TypeError; or the loop is left (nothing remains, or the read returned no
\* bytes) and the file is closed.
HitFinish(w) ==
    /\ req[w].pc = "hit"
    /\ LET r == IF req[w].file_range = None THEN req[w] ELSE sought(req[w])
           over == \/ r.file_range = None
                   \/ r.remaining = 0
                   \/ file_read(r.infile, Min(readsize, r.remaining)) = <<>>
           rq1 == [req EXCEPT ![w] =
                      IF r.file_range = None THEN Ended(r, "raised", "TypeError")
                      ELSE Ended([r EXCEPT !.infile.closed = @ + 1], "complete", "")]
       IN  /\ over
           /\ req' = rq1
           /\ inodes' = reclaim(files, inodes, rq1)
    /\ UNCHANGED <<dirs, files, nreq, tpvars>>

\* The client goes away: the server stops iterating the body.  Neither
\* class has a close method; the file objects are released with the request.
Abandon(w) ==
    /\ req[w].pc \in {"miss", "hit"}
    /\ LET rq1 == [req EXCEPT ![w] = Ended(req[w], "abandoned", "")]
       IN  /\ req' = rq1
           /\ inodes' = reclaim(files,
                                IF req[w].pc = "miss" THEN flushed(inodes, req[w].outfile)
                                ELSE inodes, rq1)
    /\ UNCHANGED <<dirs, files, nreq, tpvars>>

Next ==
    \/ \E w \in Workers, rq \in Requests, readable \in BOOLEAN : Call(w, rq, readable)
    \/ \E w \in Workers, honours \in BOOLEAN : UrlopenDone(w, honours)
    \/ \E w \in Workers, through \in BOOLEAN : MissChunk(w, through)
    \/ \E w \in Workers : MissFinish(w)
    \/ \E w \in Workers : UpstreamCloses(w)
    \/ \E w \in Workers : UpstreamFails(w)
    \/ \E w \in Workers : HitChunk(w)
    \/ \E w \in Workers : HitFinish(w)
    \/ \E w \in Workers : Abandon(w)

Spec == Init /\ [][Next]_vars

(***************************************************************************)
(* One resource asked for again and again: the whole object and one range  *)
(* of it, by more requests than Spec takes.                                *)
(***************************************************************************)

MaxRepeats == 3

full_request == Key(<<GET, a_rpm, None>>)

range_request == Key(<<GET, a_rpm, bytes_eq \o <<"1", "0", "0", "-", "1", "9", "9">> >>)

RepeatRequests == { full_request, range_request }

CallAgain(w, rq, readable) == nreq < MaxRepeats /\ accept(w, rq, readable)

RepeatNext ==
    \/ \E w \in Workers, rq \in RepeatRequests, readable \in BOOLEAN : CallAgain(w, rq, readable)
    \/ \E w \in Workers, honours \in BOOLEAN : UrlopenDone(w, honours)
    \/ \E w \in Workers, through \in BOOLEAN : MissChunk(w, through)
    \/ \E w \in Workers : MissFinish(w)
    \/ \E w \in Workers : UpstreamCloses(w)
    \/ \E w \in Workers : UpstreamFails(w)
    \/ \E w \in Workers : HitChunk(w)
    \/ \E w \in Workers : HitFinish(w)
    \/ \E w \in Workers : Abandon(w)

RepeatSpec == Init /\ [][RepeatNext]_vars

(***************************************************************************)
(* Requests that do not overlap in time: a request is taken only when no   *)
(* other is in progress.                                                   *)
(***************************************************************************)

SerialCall(w, rq, readable) ==
    /\ \A v \in Workers : req[v].pc = "idle"
    /\ nreq < MaxRepeats
    /\ accept(w, rq, readable)

SerialNext ==
    \/ \E w \in Workers, rq \in RepeatRequests, readable \in BOOLEAN : SerialCall(w, rq, readable)
    \/ \E w \in Workers, honours \in BOOLEAN : UrlopenDone(w, honours)
    \/ \E w \in Workers, through \in BOOLEAN : MissChunk(w, through)
    \/ \E w \in Workers : MissFinish(w)
    \/ \E w \in Workers : UpstreamCloses(w)
    \/ \E w \in Workers : UpstreamFails(w)
    \/ \E w \in Workers : HitChunk(w)
    \/ \E w \in Workers : HitFinish(w)
    \/ \E w \in Workers : Abandon(w)

SerialSpec == Init /\ [][SerialNext]_vars

(***************************************************************************)
(* translate_path on its own: every mirror name and raw path built from a  *)
(* few pieces.                                                             *)
(***************************************************************************)

MaxPathPieces == 4

PathPieces ==
    { <<"/">>, <<".">>, <<".", ".">>, <<"a">>, <<"%", "2", "e">>, <<"%", "2", "F">>,
      <<"%">>, <<"?">>, <<"#">> }

RECURSIVE Concat(_)
Concat(ss) == IF ss = <<>> THEN <<>> ELSE Head(ss) \o Concat(Tail(ss))

RawPaths ==
    { Concat(ps) : ps \in UNION { [1..n -> PathPieces] : n \in 0..MaxPathPieces } }

MirrorNames == { <<"m">>, <<>>, <<".">>, <<".", ".">> }

PathInit ==
    /\ tp_mirror \in MirrorNames
    /\ tp_path \in RawPaths
    /\ tp_result = <<>>
    /\ fn_args = <<>>
    /\ fn_result = <<>>
    /\ vbox = <<>>
    /\ FsInit

Translate ==
    /\ tp_result = <<>>
    /\ tp_result' = translate_path(tp_mirror, tp_path)
    /\ UNCHANGED <<tp_mirror, tp_path, fn_args, fn_result, vbox, req, fsvars, nreq>>

PathNext == Translate

PathSpec == PathInit /\ [][PathNext]_vars

\* The directory of a mirror's cache, as translate_path forms it.
mirror_dir(mirror_name) == join(cache_dir, mirror_name)

\* C3 (as stated): every path translate_path returns is a strict descendant of
\* cache_root/mirror_name: it is never that directory itself and never outside it.
C3_StrictDescendant ==
    tp_result # <<>> =>
        /\ IsPrefix(canon(mirror_dir(tp_mirror)), canon(tp_result))
        /\ canon(tp_result) # canon(mirror_dir(tp_mirror))

\* C3 (amended): every path translate_path returns is cache_root/mirror_name
\* itself or a descendant of it: it never lies outside that directory, and no
\* name of it below that directory is . or ..
C3_NeverOutside ==
    tp_result # <<>> =>
        /\ IsPrefix(canon(mirror_dir(tp_mirror)), canon(tp_result))
        /\ startswith(tp_result, mirror_dir(tp_mirror))
        /\ \A w \in Range(split(From(tp_result, Len(mirror_dir(tp_mirror))), "/", -1)) :
               w # <<".">> /\ w # <<".", ".">>

\* C3 witness: a path that climbs with .. has been translated to a file
\* below the mirror's directory.
C3_Witness ==
    /\ tp_mirror = <<"m">>
    /\ tp_path = <<"/", ".", ".", "/", "a">>
    /\ tp_result = <<"/", "c", "/", "m", "/", "a">>

(***************************************************************************)
(* What a client sees of a response                                        *)
(***************************************************************************)

has_header(hdrs, name) == \E i \in 1..Len(hdrs) : hdrs[i][1] = name

\* The value of the first header of that name.
header(hdrs, name) == hdrs[CHOOSE i \in 1..Len(hdrs) : hdrs[i][1] = name][2]

\* The status and the headers of the request were computed by a Response.
Computed(r) == r.size # -1

\* A decimal number with an optional sign; <<>> is no number.
IsInt(s) ==
    IF s # <<>> /\ s[1] = "-" THEN Len(s) > 1 /\ AllDigits(Tail(s))
    ELSE s # <<>> /\ AllDigits(s)

StrToInt(s) == IF s[1] = "-" THEN 0 - StrToNat(Tail(s)) ELSE StrToNat(s)

\* A Content-Range value read back as a client reads it: the numbers of
\* 'bytes <start>-<end>/<size>', None when the value is not of that form.
content_range_fields(v) ==
    IF ~startswith(v, bytes_sp) THEN None
    ELSE LET rest == From(v, Len(bytes_sp))
             dash == find(rest, "-")
             slash == rfind(rest, "/")
             start == UpTo(rest, dash)
             end == SubSeq(rest, dash + 2, slash)
             size == From(rest, slash + 1)
         IN  IF dash >= 1 /\ slash > dash + 1 /\ IsInt(start) /\ IsInt(end) /\ IsInt(size)
             THEN <<StrToInt(start), StrToInt(end), StrToInt(size)>> ELSE None

\* The range a response stands for: its first and last byte.
first_byte(r) == IF r.range = None THEN 0 ELSE r.range[1]
last_byte(r) == IF r.range = None \/ r.range[2] = -1 THEN r.size - 1 ELSE r.range[2]

\* The final cache path of a request, and the temporary names of the requests.
final_path(r) == resolve(Prepared[KeyOf(r)].range_path)

TempNames == { Prepared[k].tmp_path.text : k \in Requests }

(***************************************************************************)
(* C1                                                                      *)
(***************************************************************************)

\* C1: a file found at a final cache path holds the complete body of the
\* finished transfer that produced it: once a transfer has completed and
\* renamed its file, the file at the final path, as long as it is the file
\* that transfer wrote, is never shorter than the transfer.
C1_PublishedComplete ==
    \A w \in Workers :
        (req[w].kind = "miss" /\ req[w].outcome = "complete")
        => \E t \in {final_path(req[w])} :
              /\ t \in DOMAIN files
              /\ files[t] = req[w].outfile.ino
                 => BLen(inodes[files[t]]) >= BLen(req[w].delivered)

(***************************************************************************)
(* C2                                                                      *)
(***************************************************************************)

\* C2: no GET request is answered as a cache hit from a temporary file
\* <final_path>.tmp: no response is computed from such a file.
C2_TempInvisible ==
    \A w \in Workers :
        (req[w].kind = "hit" /\ Computed(req[w])) => req[w].local_path \notin TempNames

(***************************************************************************)
(* C4                                                                      *)
(***************************************************************************)

\* C4: a response built for a range (start, end) with a finite end has
\* status 206 and Content-Length end - start + 1.
C4_FiniteRangeLength ==
    \A w \in Workers :
        (Computed(req[w]) /\ req[w].range # None /\ req[w].range[2] # -1)
        => /\ req[w].status[1] = 206
           /\ header(req[w].headers, "Content-Length")
                  = IntToStr(req[w].range[2] - req[w].range[1] + 1)

(***************************************************************************)
(* C5                                                                      *)
(***************************************************************************)

\* C5: a response computed by Response carries Content-Length; it carries
\* Content-Range, reading bytes <start>-<end>/<size>, exactly when its status
\* is 206; a request without a Range header gets 200 and no Content-Range.
C5_Headers ==
    \A w \in Workers :
        Computed(req[w])
        => /\ has_header(req[w].headers, "Content-Length")
           /\ has_header(req[w].headers, "Content-Range") <=> req[w].status[1] = 206
           /\ has_header(req[w].headers, "Content-Range")
              => content_range_fields(header(req[w].headers, "Content-Range"))
                     = <<first_byte(req[w]), last_byte(req[w]), req[w].size>>
           /\ req[w].http_range = ""
              => /\ req[w].status[1] = 200
                 /\ ~has_header(req[w].headers, "Content-Range")

\* A miss without a Range header has been answered 200 by the first worker,
\* and the second answers a hit on the cached file with 206 for bytes 100-199.
C5_Witness ==
    /\ Computed(req[1]) /\ req[1].kind = "miss" /\ req[1].http_range = ""
    /\ req[1].status[1] = 200
    /\ Computed(req[2]) /\ req[2].kind = "hit" /\ req[2].range = <<100, 199>>
    /\ req[2].status[1] = 206
    /\ content_range_fields(header(req[2].headers, "Content-Range"))
           = <<100, 199, BodySize>>

(***************************************************************************)
(* C6                                                                      *)
(***************************************************************************)

\* C6: a request with a Range header, served from a published cache file
\* or from an upstream that answered with Content-Range, gets 206 and
\* Content-Range; it is never answered as if it had no Range header.
C6_ExplicitRangeIs206 ==
    \A w \in Workers :
        (/\ Computed(req[w])
         /\ req[w].http_range # ""
         /\ \/ req[w].kind = "hit" /\ req[w].local_path \notin TempNames
            \/ req[w].upstream_range # None)
        => /\ req[w].status[1] = 206
           /\ has_header(req[w].headers, "Content-Range")

(***************************************************************************)
(* C7                                                                      *)
(***************************************************************************)

\* C7: the status is 206 exactly when, on a hit, the client asked for a
\* range other than the full one, or, on a miss, the upstream answered with
\* Content-Range; a miss whose upstream sent no Content-Range gets 200.
C7_Status206Iff ==
    \A w \in Workers :
        Computed(req[w])
        => (req[w].status[1] = 206
            <=> IF req[w].kind = "hit"
                THEN req[w].range # None /\ req[w].range # FULL_RANGE
                ELSE req[w].upstream_range # None)

(***************************************************************************)
(* C8                                                                      *)
(***************************************************************************)

\* C8: a request whose Range header does not match bytes=<start>-[<end>]
\* is handled as the request without the header: no error from the header,
\* the full-file path for lookup and fetch, status 200.
C8_MalformedAsAbsent ==
    \A w \in Workers :
        (req[w].method = "GET" /\ Prepared[KeyOf(req[w])].range_raised)
        => /\ req[w].error # "AttributeError"
           /\ Computed(req[w])
              => /\ req[w].status[1] = 200
                 /\ req[w].range_path = req[w].path

(***************************************************************************)
(* C9                                                                      *)
(***************************************************************************)

\* C9: a request whose mirror segment is not a configured mirror fails:
\* no upstream contact, no status or headers, no body, whatever is cached.
C9_UnknownMirrorFails ==
    \A w \in Workers :
        (/\ req[w].method = "GET"
         /\ \E p \in {Prepared[KeyOf(req[w])]} : p.unpacked /\ ~p.known_mirror)
        => /\ req[w].outcome = "raised"
           /\ req[w].fetches = 0
           /\ req[w].started = 0
           /\ req[w].delivered = <<>>

(***************************************************************************)
(* C10                                                                     *)
(***************************************************************************)

\* C10: a GET without Range that missed and was drained, the upstream
\* having sent its whole body: one fetch, status 200, Content-Length the
\* size the upstream reported, and the full-file path holds that many bytes.
C10_FullMiss ==
    \A w \in Workers :
        (/\ req[w].kind = "miss"
         /\ req[w].http_range = ""
         /\ req[w].outcome = "complete"
         /\ req[w].remote.pos = BLen(req[w].remote.body))
        => /\ req[w].fetches = 1
           /\ req[w].status[1] = 200
           /\ header(req[w].headers, "Content-Length") = IntToStr(req[w].size)
           /\ \E t \in {final_path(req[w])} :
                 t \in DOMAIN files /\ BLen(inodes[files[t]]) = req[w].size

(***************************************************************************)
(* C11                                                                     *)
(***************************************************************************)

\* C11: after a miss for the whole object has been drained to completion,
\* a repeat of the request (a hit: only the completed miss has published the
\* file) makes no upstream request, has status 200 and, once drained,
\* has delivered the bytes the first response delivered.
C11_RepeatSameBytes ==
    \A v \in Workers : \A w \in Workers \ {v} :
        (/\ req[v].kind = "miss" /\ req[v].http_range = "" /\ req[v].outcome = "complete"
         /\ KeyOf(req[w]) = KeyOf(req[v])
         /\ req[w].kind = "hit")
        => /\ req[w].fetches = 0
           /\ Computed(req[w]) => req[w].status[1] = 200
           /\ req[w].outcome = "complete" => req[w].delivered = req[v].delivered

(***************************************************************************)
(* C12                                                                     *)
(***************************************************************************)

\* The range the client asked for, None without a well-formed Range header.
client_range(r) == Prepared[KeyOf(r)].range

\* C12: a miss for Range: bytes=S-E with a finite E asks the upstream for
\* bytes=S-E, is answered 206 with Content-Range: bytes S-E/<upstream size>,
\* and, drained with the upstream's whole body received, has published the
\* range file <stem>(S-E)<ext>, not the full-file path, with E - S + 1 bytes.
C12_RangeMiss ==
    \A w \in Workers : req[w].kind = "miss" => \A cr \in {client_range(req[w])} :
        (cr # None /\ cr[2] # -1)
        => /\ req[w].fetch_range = req[w].http_range
           /\ Computed(req[w])
              => /\ req[w].status[1] = 206
                 /\ has_header(req[w].headers, "Content-Range")
                 /\ content_range_fields(header(req[w].headers, "Content-Range"))
                        = <<cr[1], cr[2], BodySize>>
           /\ (req[w].outcome = "complete" /\ req[w].remote.pos = BLen(req[w].remote.body))
              => /\ req[w].range_path # req[w].path
                 /\ \E t \in {final_path(req[w])} :
                       t \in DOMAIN files /\ BLen(inodes[files[t]]) = cr[2] - cr[1] + 1

(***************************************************************************)
(* C13                                                                     *)
(***************************************************************************)

\* C13: a request for a range other than bytes=0- that is found in the
\* cache by its range file (no full file, the range file for just this
\* range) is answered 206 with no upstream request, ends without an error
\* and, drained, has delivered the bytes of the file.
C13_RangeFileHit ==
    \A w \in Workers :
        (/\ req[w].kind = "hit" /\ Computed(req[w])
         /\ req[w].local_path = req[w].range_path
         /\ req[w].range_path # req[w].path
         /\ req[w].range # FULL_RANGE)
        => /\ req[w].status[1] = 206
           /\ req[w].fetches = 0
           /\ req[w].error = ""
           /\ req[w].outcome = "complete"
              => \E t \in {final_path(req[w])} :
                    t \in DOMAIN files /\ req[w].delivered = inodes[files[t]]

(***************************************************************************)
(* C14                                                                     *)
(***************************************************************************)

\* A range request answered from the full file starts at the first byte of
\* the range, has read from there what it delivered, and has made no
\* upstream request.
C14_Seeks ==
    \A w \in Workers :
        (/\ req[w].kind = "hit" /\ Computed(req[w])
         /\ req[w].http_range # ""
         /\ req[w].local_path = req[w].path)
        => /\ req[w].fetches = 0
           /\ req[w].file_range # None
           /\ req[w].file_range[1] = first_byte(req[w])
           /\ req[w].infile.pos # -1
              => req[w].infile.pos = first_byte(req[w]) + BLen(req[w].delivered)

\* A range request that arrives when the full file exists and can be opened
\* becomes a hit on the full file, and neither it nor any later step of a hit
\* creates a file or a directory.
C14_Step ==
    \A w \in Workers :
        /\ (req[w].pc = "idle" /\ req'[w] # req[w] /\ req'[w].method = "GET")
           => \A p \in {Prepared[KeyOf(req'[w])]} :
                 (/\ p.unpacked /\ ~p.range_raised /\ p.range # None
                  /\ resolve(p.path) \in DOMAIN files)
                 => /\ req'[w].kind = "hit"
                    /\ req'[w].local_path = p.path.text
                    /\ req'[w].fetches = 0
                    /\ files' = files /\ dirs' = dirs
        /\ (req[w].pc = "hit" /\ req'[w] # req[w]) => files' = files /\ dirs' = dirs

\* C14: once the full-file entry exists, a range request is served from the
\* full file from the start of the range, even if the range file exists
\* too, with no upstream request and without creating a file.
C14_FullFilePriority == []C14_Seeks /\ [][C14_Step]_vars

\* The full file and the range file for bytes 100-199 both exist, and a
\* request for that range has been served its 100 bytes from the full file.
C14_Witness ==
    \E w \in Workers :
        /\ KeyOf(req[w]) = range_request
        /\ req[w].kind = "hit" /\ req[w].outcome = "complete"
        /\ req[w].local_path = req[w].path
        /\ req[w].delivered = <<Run(Text(mirrors[<<"m">>] \o <<"/", "a">> \o rpm_ext), 100, 100)>>
        /\ final_path(req[w]) \in DOMAIN files

(***************************************************************************)
(* C15, C16                                                                *)
(***************************************************************************)

\* C15: a miss that renamed its temporary file to the final path had
\* received the whole body the upstream declared.
C15_NoShortPublish ==
    \A w \in Workers :
        (req[w].kind = "miss" /\ req[w].outcome = "complete")
        => req[w].remote.pos = BLen(req[w].remote.body)

\* The temporary file of a request, as the file system names it.
tmp_file(r) == resolve(Prepared[KeyOf(r)].tmp_path)

\* C16: after the upstream connection failed in the middle of a miss, the
\* stream has ended abnormally, the temporary file is gone, and (no other
\* request being at work on the same resource) there is no final entry.
C16_FailureDiscardsTemp ==
    \A w \in Workers :
        (/\ req[w].kind = "miss" /\ req[w].pc = "idle"
         /\ req[w].error = "socket.error")
        => /\ req[w].outcome = "raised"
           /\ tmp_file(req[w]) \notin DOMAIN files
           /\ (\A v \in Workers \ {w} : req[v].kind # "miss")
              => final_path(req[w]) \notin DOMAIN files

(***************************************************************************)
(* C17                                                                     *)
(***************************************************************************)

\* The hub runs every green thread that can run: a request that waits for
\* the upstream or for its client is resumed when the reply, the bytes or
\* the end of the body is there.  Nothing obliges a client to send a
\* request, to go away, or the upstream to break the connection.
Scheduling ==
    \A w \in Workers :
        /\ WF_vars(\E honours \in BOOLEAN : UrlopenDone(w, honours))
        /\ WF_vars(\E through \in BOOLEAN : MissChunk(w, through))
        /\ WF_vars(MissFinish(w))
        /\ WF_vars(HitChunk(w))
        /\ WF_vars(HitFinish(w))

\* The requests of RepeatRequests, as many as Spec takes.
LiveNext ==
    \/ \E w \in Workers, rq \in RepeatRequests, readable \in BOOLEAN : Call(w, rq, readable)
    \/ \E w \in Workers, honours \in BOOLEAN : UrlopenDone(w, honours)
    \/ \E w \in Workers, through \in BOOLEAN : MissChunk(w, through)
    \/ \E w \in Workers : MissFinish(w)
    \/ \E w \in Workers : UpstreamCloses(w)
    \/ \E w \in Workers : UpstreamFails(w)
    \/ \E w \in Workers : HitChunk(w)
    \/ \E w \in Workers : HitFinish(w)
    \/ \E w \in Workers : Abandon(w)

LiveSpec == Init /\ [][LiveNext]_vars /\ Scheduling

\* The miss for k was abandoned by its client before the body was exhausted.
abandoned_miss(w, k) ==
    /\ KeyOf(req[w]) = k
    /\ req[w].kind = "miss" /\ req[w].outcome = "abandoned"
    /\ req[w].remote.pos < BLen(req[w].remote.body)

\* The complete entry for k is published at its final path.
published(k) ==
    \E t \in {resolve(Prepared[k].range_path)} :
        /\ t \in DOMAIN files
        /\ BLen(inodes[files[t]]) = BLen(UpstreamReplies[<<Prepared[k].fetch_url, Prepared[k].fetch_range, TRUE>>].body)

\* C17: a miss whose client went away before the upstream body was
\* exhausted is followed by the publication of the complete entry.
C17_AbandonStillPublishes ==
    \A w \in Workers : \A k \in RepeatRequests :
        abandoned_miss(w, k) ~> published(k)

(***************************************************************************)
(* C18                                                                     *)
(***************************************************************************)

\* C18: when a request has ended, the cached file it opened, the temp file
\* it opened and the upstream connection it opened have each been closed
\* exactly once.
C18_ClosedOnce ==
    \A w \in Workers :
        (req[w].pc = "idle" /\ req[w] # Idle)
        => /\ req[w].infile.ino # 0 => req[w].infile.closed = 1
           /\ req[w].outfile.ino # 0 => req[w].outfile.closed = 1
           /\ req[w].upstream_code \in {200, 206} => req[w].remote.closed = 1

(***************************************************************************)
(* C19                                                                     *)
(***************************************************************************)

\* The upstream answered the fetch of this request with a non-success status.
upstream_refused(r) == r.kind = "miss" /\ r.upstream_code \notin {0, 200, 206}

\* The client of a refused fetch got the upstream's status code and an
\* empty body, after one fetch, and the request has ended.
C19_Forwarded ==
    \A w \in Workers :
        upstream_refused(req[w])
        => /\ req[w].status # None /\ req[w].status[1] = req[w].upstream_code
           /\ req[w].started = 1
           /\ req[w].headers = <<>>
           /\ req[w].delivered = <<>> /\ req[w].outcome = "empty"
           /\ req[w].fetches = 1
           /\ req[w].pc = "idle"

\* The step in which the fetch is refused creates no directory and no file.
C19_Step ==
    \A w \in Workers :
        (req[w].pc = "urlopen" /\ upstream_refused(req'[w]))
        => dirs' = dirs /\ files' = files /\ inodes' = inodes

\* C19: a non-success status of the upstream reaches the client as the
\* same status code with an empty body, the fetch is not repeated, and no
\* directory, temp file or final file is created.
C19_UpstreamErrorForwarded == []C19_Forwarded /\ [][C19_Step]_vars

\* A fetch was refused with 404 while the directory of its cache path does
\* not exist.
C19_Witness ==
    \E w \in Workers :
        /\ upstream_refused(req[w])
        /\ req[w].status # None /\ req[w].status[1] = 404
        /\ ~exists(Prepared[KeyOf(req[w])].dir)

(***************************************************************************)
(* C20                                                                     *)
(***************************************************************************)

\* The lookup of this request found the local file and opening it failed.
unreadable(r) == r.kind = "hit" /\ r.infile.ino = 0

\* C20: a request whose lookup found the local file and whose open failed
\* is answered with status 500 and an empty body, and makes no upstream
\* request.
C20_UnreadableIs500 ==
    \A w \in Workers :
        unreadable(req[w])
        => /\ req[w].status # None /\ req[w].status[1] = 500
           /\ req[w].started = 1
           /\ req[w].delivered = <<>> /\ req[w].outcome = "empty"
           /\ req[w].fetches = 0
           /\ req[w].pc = "idle"

\* The file of the request's path exists, the lookup found it, and it could
\* not be opened.
C20_Witness ==
    \E w \in Workers :
        /\ unreadable(req[w])
        /\ req[w].status = <<500, "Could not read file">>
        /\ req[w].local_path # ""
        /\ resolve(Prepared[KeyOf(req[w])].path) \in DOMAIN files

(***************************************************************************)
(* C21                                                                     *)
(***************************************************************************)

\* Status and headers are emitted at most once, and before any byte of the
\* body; what a miss has delivered is the upstream body up to the place the
\* upstream has been read to, in the chunks recorded.
C21_Order ==
    \A w \in Workers :
        /\ req[w].started <= 1
        /\ (req[w].delivered # <<>> \/ req[w].chunks # <<>> \/ req[w].pc \in {"miss", "hit"})
           => req[w].started = 1 /\ req[w].status # None
        /\ req[w].kind = "miss"
           => req[w].delivered = BSlice(req[w].remote.body, 0, req[w].remote.pos)

\* Each chunk of a hit is the bytes of the file that follow the bytes
\* delivered before, and is appended to them; status and headers are not
\* emitted again once emitted.
C21_Step ==
    \A w \in Workers :
        /\ (req[w].pc = "hit" /\ req'[w].delivered # req[w].delivered)
           => \E n \in 1..BodySize : \E from \in {sought(req[w]).infile.pos} :
                 /\ req'[w].delivered =
                        BCat(req[w].delivered,
                             BSlice(inodes[req[w].infile.ino], from, from + n))
                 /\ req'[w].infile.pos = from + n
                 /\ req'[w].chunks = Append(req[w].chunks, n)
        /\ (req[w].pc # "idle" /\ req[w].started = 1)
           => /\ req'[w].started = 1
              /\ req'[w].status = req[w].status /\ req'[w].headers = req[w].headers

\* C21: within one request status and headers are emitted exactly once and
\* before the first chunk of the body, and the chunks reach the consumer in
\* source order, none skipped, duplicated or reordered.
C21_OnceThenInOrder == []C21_Order /\ [][C21_Step]_vars

\* A miss and a hit that each delivered the whole object in two chunks.
C21_Witness ==
    /\ \E w \in Workers :
          /\ req[w].kind = "miss" /\ req[w].outcome = "complete"
          /\ Len(req[w].chunks) = 2 /\ BLen(req[w].delivered) = BodySize
    /\ \E w \in Workers :
          /\ req[w].kind = "hit" /\ req[w].outcome = "complete"
          /\ Len(req[w].chunks) = 2 /\ BLen(req[w].delivered) = BodySize

(***************************************************************************)
(* C22                                                                     *)
(***************************************************************************)

\* C22: a request whose method is not GET ends with an exception raised to
\* the caller, and no status or headers are emitted for it.
C22_OnlyGet ==
    \A w \in Workers :
        req[w].method \notin {"", "GET"}
        => /\ req[w].pc = "idle" /\ req[w].outcome = "raised"
           /\ req[w].error = "Exception"
           /\ req[w].started = 0 /\ req[w].status = None /\ req[w].headers = <<>>
           /\ req[w].kind = "none" /\ req[w].fetches = 0

\* A POST request for a cached object has been refused.
C22_Witness ==
    \E w \in Workers :
        /\ req[w].method = "POST" /\ req[w].outcome = "raised"
        /\ resolve(Prepared[KeyOf(req[w])].path) \in DOMAIN files

(***************************************************************************)
(* C23: _get_range and Response on their own                               *)
(***************************************************************************)

MaxOffset == 12

\* The end of an open range, as the client leaves it out.
open_end == -1

\* bytes=<start>-<end>, and bytes=<start>- when the end is left out
range_header_of(start, end) ==
    bytes_eq \o NatToStr(start) \o <<"-">>
             \o (IF end = open_end THEN <<>> ELSE NatToStr(end))

\* The ranges a client can ask for in an object of that size.
RangeInit ==
    /\ fn_args \in { a \in (0..MaxOffset) \X ({open_end} \cup (0..MaxOffset)) \X (1..(MaxOffset + 1)) :
                        /\ a[1] < a[3]
                        /\ a[2] # open_end => (a[1] <= a[2] /\ a[2] < a[3]) }
    /\ fn_result = <<>>
    /\ tp_mirror = <<>> /\ tp_path = <<>> /\ tp_result = <<>>
    /\ vbox = <<>>
    /\ FsInit

\* do_GET's use of the two: the Range header parsed by _get_range, the
\* Response built from the range and the size, its headers.
round_trip(http_range, size) ==
    headers(Response(content_type_of(rpm_ext), size, get_range(http_range).range))

RoundTrip ==
    /\ fn_result = <<>>
    /\ fn_result' = <<round_trip(range_header_of(fn_args[1], fn_args[2]), fn_args[3])>>
    /\ UNCHANGED <<fn_args, tp_mirror, tp_path, tp_result, vbox, req, fsvars, nreq>>

RangeNext == RoundTrip

RangeSpec == RangeInit /\ [][RangeNext]_vars

\* C23: for start <= end < size the header bytes=<start>-<end> comes back
\* as Content-Range: bytes <start>-<end>/<size>, and bytes=<start>- comes
\* back with size - 1 as its end.
C23_RoundTrip ==
    fn_result # <<>> =>
        /\ has_header(fn_result[1], "Content-Range")
        /\ content_range_fields(header(fn_result[1], "Content-Range"))
           = <<fn_args[1],
               IF fn_args[2] = open_end THEN fn_args[3] - 1 ELSE fn_args[2],
               fn_args[3]>>

(***************************************************************************)
(* Vbox as a context manager                                               *)
(*                                                                         *)
(* vbox holds the object's fields (_running_stack_count,                   *)
(* _started_by_context, _session), whether its VM is running, and what     *)
(* the program around it has seen: the session each entered context was    *)
(* given, the sessions created, the starts and halts issued, and how the   *)
(* last outermost context ended.                                           *)
(***************************************************************************)

MaxEnters == 4

\* Vbox.__init__, for a VM that is or is not running.
Vbox(running) ==
    [_running_stack_count |-> 0, _started_by_context |-> None, _session |-> 0,
     running |-> running,
     entered |-> <<>>, enters |-> 0, sessions |-> 0, starts |-> 0, halts |-> 0,
     ended |-> None, error |-> ""]

\* halt(): controlvm, then join.  ok: the VM shuts down; otherwise halt
\* leaves with abort and the VM is as it was.
vbox_halt(v, ok) ==
    [v EXCEPT !.halts = @ + 1,
              !.running = IF ok THEN FALSE ELSE @,
              !.error = IF ok THEN @ ELSE "SystemExit"]

\* __enter__ that makes a session every time it is entered.
vbox_enter_new_session(v) ==
    LET outer == v._running_stack_count = 0
        v1 == [v EXCEPT !._started_by_context = IF outer THEN <<~v.running>> ELSE @,
                        !.starts = IF outer /\ ~v.running THEN @ + 1 ELSE @,
                        !.running = IF outer THEN TRUE ELSE @,
                        !.sessions = @ + 1,
                        !._session = v.sessions + 1]
    IN  [v1 EXCEPT !._running_stack_count = @ + 1,
                   !.entered = Append(@, v1._session),
                   !.enters = @ + 1,
                   !.error = ""]

\* __enter__
vbox_enter(v) ==
    LET outer == v._running_stack_count = 0
        v1 == IF outer
              THEN [v EXCEPT !._started_by_context = <<~v.running>>,
                             !.starts = IF v.running THEN @ ELSE @ + 1,
                             !.running = TRUE,
                             !.sessions = @ + 1,
                             !._session = v.sessions + 1]
              ELSE v
    IN  [v1 EXCEPT !._running_stack_count = @ + 1,
                   !.entered = Append(@, v1._session),
                   !.enters = @ + 1,
                   !.error = ""]

\* __exit__ that halts at the end of the outermost context whether or not
\* the context started the VM.
vbox_exit_halts_always(v, type, confirmed, ok) ==
    LET v1 == [v EXCEPT !._running_stack_count = @ - 1,
                        !.entered = SubSeq(@, 1, Len(@) - 1),
                        !.error = ""]
        asked == type # "None"
        halts == IF asked THEN confirmed ELSE TRUE
        v2 == IF halts THEN vbox_halt(v1, ok) ELSE v1
    IN  IF v1._running_stack_count # 0 THEN v1
        ELSE [v2 EXCEPT !.ended = [type |-> type, asked |-> asked, confirmed |-> confirmed,
                                   started |-> v._started_by_context = <<TRUE>>,
                                   halted |-> halts]]

\* __exit__(type, value, traceback).  confirmed: the answer to 'Do you want
\* to shut down?', when it is asked.
vbox_exit(v, type, confirmed, ok) ==
    LET v1 == [v EXCEPT !._running_stack_count = @ - 1,
                        !.entered = SubSeq(@, 1, Len(@) - 1),
                        !.error = ""]
        asked == type # "None"
        halts == IF asked THEN confirmed ELSE v._started_by_context = <<TRUE>>
        v2 == IF halts THEN vbox_halt(v1, ok) ELSE v1
    IN  IF v1._running_stack_count # 0 THEN v1
        ELSE [v2 EXCEPT !.ended = [type |-> type, asked |-> asked, confirmed |-> confirmed,
                                   started |-> v._started_by_context = <<TRUE>>,
                                   halted |-> halts]]

\* What a with block can end with.
ExitTypes == {"None", "KeyboardInterrupt", "Exception"}

VboxInit ==
    /\ vbox \in { Vbox(running) : running \in BOOLEAN }
    /\ fn_args = <<>> /\ fn_result = <<>>
    /\ tp_mirror = <<>> /\ tp_path = <<>> /\ tp_result = <<>>
    /\ FsInit

\* with vbox as session:
Enter ==
    /\ vbox.enters < MaxEnters
    /\ vbox' = vbox_enter(vbox)
    /\ UNCHANGED <<req, fsvars, nreq, tp_mirror, tp_path, tp_result, fn_args, fn_result>>

\* with vbox as session: where the VM is not running and _ensure_running
\* raises (the VM does not start): __enter__ is left before the count is
\* raised, and the with block is not entered.
EnterFails ==
    /\ vbox._running_stack_count = 0
    /\ ~vbox.running
    /\ vbox' = [vbox EXCEPT !._started_by_context = <<TRUE>>, !.error = "start"]
    /\ UNCHANGED <<req, fsvars, nreq, tp_mirror, tp_path, tp_result, fn_args, fn_result>>

\* The innermost with block ends.
Exit(type, confirmed, ok) ==
    /\ vbox.entered # <<>>
    /\ vbox.running \/ ~ok
    /\ vbox' = vbox_exit(vbox, type, confirmed, ok)
    /\ UNCHANGED <<req, fsvars, nreq, tp_mirror, tp_path, tp_result, fn_args, fn_result>>

\* session.halt() inside a with block, and the VM shuts down
SessionHalt ==
    /\ vbox.entered # <<>>
    /\ vbox.running
    /\ vbox' = vbox_halt(vbox, TRUE)
    /\ UNCHANGED <<req, fsvars, nreq, tp_mirror, tp_path, tp_result, fn_args, fn_result>>

VboxNext ==
    \/ Enter
    \/ EnterFails
    \/ \E type \in ExitTypes, confirmed \in BOOLEAN, ok \in BOOLEAN : Exit(type, confirmed, ok)
    \/ SessionHalt

VboxSpec == VboxInit /\ [][VboxNext]_vars

(***************************************************************************)
(* C24                                                                     *)
(***************************************************************************)

C25_CopyIsExact ==
    \A w \in Workers :
        (nreq = 1 /\ req[w].kind = "miss" /\ req[w].outfile.ino # 0)
        => /\ req[w].pc = "miss"
              => /\ tmp_file(req[w]) \in DOMAIN files
                 /\ files[tmp_file(req[w])] = req[w].outfile.ino
                 /\ BCat(inodes[req[w].outfile.ino], req[w].outfile.buf) = req[w].delivered
                 /\ BLen(inodes[req[w].outfile.ino]) = req[w].outfile.pos
           /\ (req[w].outcome = "complete" /\ req[w].remote.pos = BLen(req[w].remote.body))
              => /\ final_path(req[w]) \in DOMAIN files
                 /\ inodes[files[final_path(req[w])]] = req[w].delivered
                 /\ req[w].delivered = req[w].remote.body
                 /\ tmp_file(req[w]) \notin DOMAIN files

\* The only request was a miss, delivered the whole object in two chunks
\* and published it.
C25_Witness ==
    /\ nreq = 1
    /\ \E w \in Workers :
          /\ req[w].kind = "miss" /\ req[w].outcome = "complete"
          /\ Len(req[w].chunks) = 2
          /\ BLen(req[w].delivered) = BodySize
          /\ final_path(req[w]) \in DOMAIN files
          /\ inodes[files[final_path(req[w])]] = req[w].delivered

(***************************************************************************)
(* C26                                                                     *)
(***************************************************************************)

\* C26: no chunk of a miss or of a hit on a published file is longer than
\* readsize, and such a hit never delivers more than (end - start) + 1
\* bytes.
C26_ChunksBounded ==
    \A w \in Workers :
        (req[w].kind = "miss" \/ (req[w].kind = "hit" /\ req[w].local_path \notin TempNames))
        => /\ \A i \in 1..Len(req[w].chunks) : req[w].chunks[i] <= readsize
           /\ (req[w].kind = "hit" /\ req[w].file_range # None)
              => BLen(req[w].delivered)
                    <= Max(0, (req[w].file_range[2] - req[w].file_range[1]) + 1)

(***************************************************************************)
(* C27                                                                     *)
(***************************************************************************)

\* The number of bytes at offsets start..min(end, size - 1).
bytes_in_range(start, end, size) == Max(0, (Min(end, size - 1) - start) + 1)

\* C27: a hit on the full file of its path with effective range (start,
\* end) has read the file from start on without a gap, and when it has
\* completed it has delivered the bytes at offsets start..min(end, size -
\* 1), as many as there are, without an error.
C27_FullFileHitBody ==
    \A w \in Workers :
        (/\ req[w].kind = "hit" /\ Computed(req[w])
         /\ req[w].local_path = req[w].path
         /\ req[w].local_path \notin TempNames)
        => /\ req[w].file_range = <<first_byte(req[w]), last_byte(req[w])>>
           /\ req[w].error = ""
           /\ req[w].infile.pos # -1
              => req[w].infile.pos = req[w].file_range[1] + BLen(req[w].delivered)
           /\ req[w].outcome = "complete"
              => BLen(req[w].delivered)
                    = bytes_in_range(req[w].file_range[1], req[w].file_range[2], req[w].size)

(***************************************************************************)
(* C28                                                                     *)
(***************************************************************************)

\* The Content-Length the upstream sent with the reply this miss received.
upstream_content_length(r) ==
    LET p == Prepared[KeyOf(r)]
        h == CHOOSE h \in BOOLEAN :
                \E reply \in {UpstreamReplies[<<p.fetch_url, p.fetch_range, h>>]} :
                    /\ reply.code = r.upstream_code
                    /\ reply.content_range = r.upstream_range
                    /\ reply.body = r.remote.body
    IN  StrToInt(UpstreamReplies[<<p.fetch_url, p.fetch_range, h>>].content_length)

\* C28: on a miss whose upstream reply carries Content-Range: bytes
\* S-E/SIZE the response has range (S, E) and size SIZE, whatever the
\* client asked for; without a Content-Range the size is the upstream's
\* Content-Length and the range is the client's.
C28_UpstreamRangeRules ==
    \A w \in Workers :
        (req[w].kind = "miss" /\ Computed(req[w]))
        => IF req[w].upstream_range # None
           THEN \E f \in {content_range_fields(req[w].upstream_range)} :
                   /\ f # None
                   /\ req[w].range = <<f[1], f[2]>>
                   /\ req[w].size = f[3]
                   /\ req[w].status[1] = 206
                   /\ content_range_fields(header(req[w].headers, "Content-Range")) = f
           ELSE /\ req[w].size = upstream_content_length(req[w])
                /\ req[w].range = client_range(req[w])

\* The client asked for bytes=100-, the upstream answered with
\* Content-Range: bytes 100-<last>/<size>, and the response has that range.
C28_Witness ==
    \E w \in Workers :
        /\ req[w].kind = "miss" /\ Computed(req[w])
        /\ client_range(req[w]) = <<100, -1>>
        /\ req[w].upstream_range # None
        /\ req[w].range = <<100, BodySize - 1>>
        /\ req[w].size = BodySize

(***************************************************************************)
(* C29                                                                     *)
(***************************************************************************)

\* The PATH_INFO of a request, and what follows its mirror segment.
path_info_of(r) == (CHOOSE rq \in RequestChars : Key(rq) = KeyOf(r))[2]
after_mirror(path_info) == From(Tail(path_info), find(Tail(path_info), "/"))
mirror_of(path_info) == UpTo(Tail(path_info), find(Tail(path_info), "/"))

\* bytes=<start>-<end>, or bytes=<start>- for an open end, as text
expected_range(range) ==
    IF range[2] = -1 THEN Text(bytes_eq \o NatToStr(range[1]) \o <<"-">>)
    ELSE Text(bytes_eq \o NatToStr(range[1]) \o <<"-">> \o NatToStr(range[2]))

\* C29: the upstream request of a miss has a Range header exactly when the
\* client gave a range, with the value bytes=<start>-<end> or
\* bytes=<start>-, and its URL is the mirror's base URL followed by the
\* request path after the mirror segment, percent-encoded as a URL path.
C29_FetchRequest ==
    \A w \in Workers :
        req[w].kind = "miss"
        => /\ req[w].fetches = 1
           /\ (req[w].fetch_range # "") <=> (req[w].http_range # "")
           /\ client_range(req[w]) # None
              => req[w].fetch_range = expected_range(client_range(req[w]))
           /\ \E pi \in {path_info_of(req[w])} :
                 /\ mirror_of(pi) \in DOMAIN mirrors
                 /\ req[w].fetch_url = Text(mirrors[mirror_of(pi)] \o quote(after_mirror(pi)))

\* Two misses: one forwarded the range 100-199, the other the open range
\* from 100.
C29_Witness ==
    /\ \E w \in Workers :
          /\ req[w].kind = "miss" /\ req[w].path_info = Text(a_rpm)
          /\ req[w].fetch_range = "bytes=100-199"
          /\ req[w].fetch_url = Text(mirrors[<<"m">>] \o <<"/", "a">> \o rpm_ext)
    /\ \E w \in Workers :
          /\ req[w].kind = "miss" /\ req[w].fetch_range = "bytes=100-"

(***************************************************************************)
(* C30                                                                     *)
(***************************************************************************)

\* The temporary files of the requests, as the file system names them.
TempFiles == { resolve(Prepared[k].tmp_path) : k \in { j \in Requests : Prepared[j].known_mirror } }

\* No step changes, replaces or removes a file that is in the cache under
\* a final path.
C30_Step ==
    \A t \in DOMAIN files :
        t \notin TempFiles
        => /\ t \in DOMAIN files'
           /\ inodes'[files'[t]] = inodes[files[t]]

\* C30: once an entry is published at its final path its content never
\* changes: no later step of any request writes to it, truncates it,
\* replaces it or removes it.
C30_PublishedImmutable == [][C30_Step]_vars

(***************************************************************************)
(* C31                                                                     *)
(***************************************************************************)

\* A file or directory of the file system lies inside the cache directory.
under_cache_dir(t) == IsPrefix(canon(cache_dir), t)

\* The file a hit found, as the file system names it.
local_file(r) ==
    resolve(CHOOSE q \in {Prepared[KeyOf(r)].path, Prepared[KeyOf(r)].range_path} :
               q.text = r.local_path)

\* C31: whatever the mirror segment of a request is, the file a request
\* finds and opens lies inside the cache directory, and so does every file
\* and directory a request creates.
C31_InsideCacheDir ==
    /\ \A w \in Workers :
          (req[w].kind = "hit" /\ req[w].infile.ino # 0)
          => under_cache_dir(local_file(req[w]))
    /\ \A t \in DOMAIN files : t # outside_file => under_cache_dir(t)
    /\ \A d \in dirs : d # <<>> => under_cache_dir(d)

(***************************************************************************)
(* C32                                                                     *)
(***************************************************************************)

\* The upstream objects whose bytes a content holds.
sources_of(content) == { content[i].src : i \in 1..Len(content) } \ {"zero"}

\* C32: a request for a whole resource of a configured mirror that is
\* served from a published cache file is served bytes of that resource
\* only, never the range file cached for another resource.
C32_NoAlias ==
    \A w \in Workers :
        (/\ req[w].kind = "hit" /\ req[w].http_range = ""
         /\ req[w].local_path \notin TempNames)
        => \A p \in {Prepared[KeyOf(req[w])]} :
              p.known_mirror
              => /\ sources_of(req[w].delivered) \subseteq {p.fetch_text[1]}
                 /\ req[w].infile.ino \in DOMAIN inodes
                    => sources_of(inodes[req[w].infile.ino]) \subseteq {p.fetch_text[1]}

(***************************************************************************)
(* C33                                                                     *)
(***************************************************************************)

\* C33: when two misses share a temp file, a stream that has read the
\* upstream body to its end has delivered that body and ended normally.
C33_BothStreamsComplete ==
    \A w \in Workers : \A v \in Workers \ {w} :
        (/\ req[w].kind = "miss" /\ req[w].outfile.ino # 0
         /\ req[v].kind = "miss" /\ req[v].outfile.ino # 0
         /\ tmp_file(req[w]) = tmp_file(req[v])
         /\ req[w].pc = "idle"
         /\ req[w].remote.pos = BLen(req[w].remote.body)
         /\ req[w].remote.closed > 0)
        => /\ req[w].delivered = req[w].remote.body
           /\ req[w].outcome = "complete"

(***************************************************************************)
(* C34                                                                     *)
(***************************************************************************)

\* The directories and the files of the host with their contents.
tree == <<dirs, [t \in DOMAIN files |-> inodes[files[t]]]>>

\* C34: a step that changes the directories, the files or their contents
\* is a step of a miss whose upstream request succeeded; hits, 500
\* responses, upstream error responses, unknown-mirror failures and
\* failures of other methods leave them as they are.
C34_Step ==
    tree' # tree
    => \E w \in Workers :
          /\ req'[w] # req[w]
          /\ req'[w].kind = "miss" /\ req'[w].upstream_code \in {200, 206}

C34_OnlySuccessfulMissWrites == [][C34_Step]_vars

\* An upstream error response and an unknown-mirror failure have happened,
\* and the host's directories and files are those of the start.
C34_Witness ==
    /\ \E w \in Workers : req[w].kind = "miss" /\ req[w].upstream_code = 404
    /\ \E w \in Workers : req[w].error = "KeyError"
    /\ dirs = { <<>>, canon(cache_dir) }
    /\ tree[2] = [t \in {outside_file} |-> outside_content]

(***************************************************************************)
(* C35                                                                     *)
(***************************************************************************)

\* C35: a GET request for a configured mirror whose do_GET has returned
\* without raising has called start_response exactly once.
C35_StartedBeforeReturn ==
    \A w \in Workers :
        (/\ req[w].method = "GET"
         /\ req[w].outcome \notin {"none", "fetching", "raised"})
        => \A p \in {Prepared[KeyOf(req[w])]} :
              (p.unpacked /\ p.known_mirror) => req[w].started = 1

(***************************************************************************)
(* C36                                                                     *)
(***************************************************************************)

\* C36: when requests do not overlap, a miss starts from an empty temp
\* file, whatever an earlier transfer left in it, and the entry a completed
\* miss has published holds the bytes of its own upstream response, those
\* it delivered, and no others.
C36_OwnBytesOnly ==
    \A w \in Workers :
        req[w].kind = "miss"
        => /\ (req[w].pc = "miss" /\ req[w].delivered = <<>>)
              => inodes[req[w].outfile.ino] = <<>>
           /\ req[w].outcome = "complete"
              => /\ final_path(req[w]) \in DOMAIN files
                 /\ inodes[files[final_path(req[w])]] = req[w].delivered
                 /\ req[w].delivered = BSlice(req[w].remote.body, 0, req[w].remote.pos)

\* A miss for bytes 100-199 was abandoned with 4096 bytes of the whole
\* object in the temp file; a later miss for the same range got its 100
\* bytes from the upstream and published them alone.
C36_Witness ==
    /\ KeyOf(req[1]) = range_request /\ KeyOf(req[2]) = range_request
    /\ req[1].kind = "miss" /\ req[1].outcome = "abandoned"
    /\ BLen(req[1].delivered) = readsize
    /\ req[2].kind = "miss" /\ req[2].outcome = "complete"
    /\ BLen(req[2].delivered) = 100
    /\ inodes[files[final_path(req[2])]] = req[2].delivered

(***************************************************************************)
(* C37                                                                     *)
(***************************************************************************)

\* _running_stack_count is the number of contexts entered and not yet left,
\* and every one of them was given the session the Vbox holds.
C37_Count ==
    /\ vbox._running_stack_count = Len(vbox.entered)
    /\ vbox._running_stack_count >= 0
    /\ \A i \in 1..Len(vbox.entered) : vbox.entered[i] = vbox._session

\* The VM is started and a session made only by an enter at depth 0; a
\* nested enter returns the session of the outermost one; an exit halts
\* only when it leaves the outermost context.
C37_Step ==
    /\ (vbox'.sessions # vbox.sessions \/ vbox'.starts # vbox.starts)
       => vbox._running_stack_count = 0 /\ vbox'._running_stack_count = 1
    /\ (Len(vbox'.entered) > Len(vbox.entered) /\ vbox.entered # <<>>)
       => /\ vbox'._session = vbox._session
          /\ vbox'.entered[Len(vbox'.entered)] = vbox.entered[1]
    /\ (Len(vbox'.entered) < Len(vbox.entered) /\ vbox'.halts # vbox.halts)
       => vbox'._running_stack_count = 0

\* C37: Vbox contexts nest: _running_stack_count is the number of contexts
\* entered and is never negative, the VM is started and a session made only
\* on the outermost enter, every nested enter returns that session, and an
\* exit halts only when it is the outermost one.
C37_ContextsNest == []C37_Count /\ [][C37_Step]_vars

\* Three contexts are nested inside the second outermost enter, all with
\* its session, after the first outermost context was left with a halt.
C37_Witness ==
    /\ vbox._running_stack_count = 3
    /\ vbox.sessions = 2 /\ vbox.halts = 1
    /\ vbox.entered = <<2, 2, 2>>

====
